---- MODULE Spec2Model ----
(***************************************************************************)
(* Model of the chunked transfer-coding decoder of src/src/decoder.rs:     *)
(* Decoder<R> { source, remaining_chunks_size }, read_chunk_size and the   *)
(* Read implementation.  Bytes are their ASCII codes.  One Read step is    *)
(* one whole call of Decoder::read, recursion included.                    *)
(***************************************************************************)
EXTENDS Integers, Sequences, FiniteSets, TLC

VARIABLES
    input,                  \* the bytes held by the underlying source
    chunks,                 \* the slices that were encoded into input (encoder side)
    pos,                    \* number of bytes the decoder has pulled from source
    remaining_chunks_size,  \* Option<usize>: None or Some(c)
    out,                    \* bytes delivered to the caller so far (sum of Ok(n))
    ret,                    \* what the last call of read did and returned
    eof,                    \* an earlier or the last call returned at line 113
    peer                    \* a second Decoder over a copy of the same input

vars == <<input, chunks, pos, remaining_chunks_size, out, ret, eof, peer>>

----------------------------------------------------------------------------
\* Bounds of the model.

\* largest caller buffer, and largest amount the source hands out per read
MaxCap == 3
\* longest arbitrary byte string appended to the input
MaxTail == 3
\* number of slices handed to the encoder
MaxChunks == 2
\* length of an encoded slice
MaxSlice == 1
\* the source may fail at its 1st .. MaxFault-th read of a call
MaxFault == 5

----------------------------------------------------------------------------
\* Bytes.

CR == 13
LF == 10

\* width of usize on the smallest targets Rust supports
UsizeBits == 16
UsizeMax == 2^UsizeBits - 1

\* Option<T>
None == <<>>
Some(c) == <<c>>
IsSome(o) == Len(o) = 1
Unwrap(o) == o[1]

Min(a, b) == IF a < b THEN a ELSE b

----------------------------------------------------------------------------
\* usize::from_str_radix(&chunk_size, 16) and what it is built from.

\* to_digit counting the decimal digits from one
to_digit_from_one(b) ==
    IF b >= 48 /\ b <= 57 THEN b - 47
    ELSE IF b >= 97 /\ b <= 102 THEN b - 87
    ELSE IF b >= 65 /\ b <= 70 THEN b - 55
    ELSE -1

\* char::to_digit(16): the digit's value, or -1 for None
to_digit(b) ==
    IF b >= 48 /\ b <= 57 THEN b - 48
    ELSE IF b >= 97 /\ b <= 102 THEN b - 87
    ELSE IF b >= 65 /\ b <= 70 THEN b - 55
    ELSE -1

\* digit by digit, checked multiply and add; None on a bad digit or overflow
RECURSIVE parse_digits(_, _, _)
parse_digits(ds, i, acc) ==
    IF i > Len(ds) THEN Some(acc)
    ELSE LET d == to_digit(ds[i]) IN
         IF d < 0 THEN None
         ELSE IF acc * 16 + d > UsizeMax THEN None
         ELSE parse_digits(ds, i + 1, acc * 16 + d)

\* an optional leading '+', then at least one digit
strip_sign(s) == IF s[1] = 43 THEN Tail(s) ELSE s

from_str_radix(s) ==
    IF Len(s) = 0 THEN None
    ELSE IF s = <<43>> \/ s = <<45>> THEN None
    ELSE parse_digits(strip_sign(s), 1, 0)

\* String::from_utf8 on the bytes of the model, all of them ASCII
from_utf8_ok(s) == \A i \in 1..Len(s) : s[i] < 128

----------------------------------------------------------------------------
\* The underlying source: a cursor over input.  f is the index (within one
\* call of Decoder::read) of the source read that reports a failure, 0 for none.

\* self.source.by_ref().bytes().next(), the idx-th source read of the call at p
SourceByte(p, idx, f) ==
    IF idx = f THEN [tag |-> "SomeErr", byte |-> -1]
    ELSE IF p >= Len(input) THEN [tag |-> "None", byte |-> -1]
    ELSE [tag |-> "SomeOk", byte |-> input[p + 1]]

\* Expect taking any byte the source hands out
expect_any(b, want) == b.tag = "SomeOk"

\* the pattern Some(Ok(want)) => (), against _ => return Err(DecoderError)
Expect(b, want) == b.tag = "SomeOk" /\ b.byte = want

\* bytes a next() took from the source
Took(b) == IF b.tag = "SomeOk" THEN 1 ELSE 0

\* self.source.read(buf) with buf.len() = req: a short read hands out at most
\* k bytes (k >= 1), at least one when req >= 1 and bytes are left
SourceRead(p, req, k, idx, f) ==
    IF idx = f THEN [ok |-> FALSE, n |-> 0]
    ELSE [ok |-> TRUE, n |-> Min(Min(req, k), Len(input) - p)]

----------------------------------------------------------------------------
\* Decoder::read_chunk_size.  idx counts the source reads of the current call.

\* the loop of lines 60-71: bytes up to the first '\r' are pushed on chunk_size
RECURSIVE size_loop(_, _, _, _)
size_loop(p, idx, acc, f) ==
    LET b == SourceByte(p, idx, f) IN
    IF b.tag = "SomeErr" THEN [st |-> "source", pos |-> p, idx |-> idx, acc |-> acc]
    ELSE IF b.tag = "None" THEN [st |-> "decoder", pos |-> p, idx |-> idx, acc |-> acc]
    ELSE IF b.byte = CR THEN [st |-> "break", pos |-> p + 1, idx |-> idx, acc |-> acc]
    ELSE size_loop(p + 1, idx + 1, Append(acc, b.byte), f)

\* Ok(chunk_size) or Err, with the source position and read count it leaves
read_chunk_size(p, idx0, f) ==
    LET l == size_loop(p, idx0 + 1, <<>>, f)
        b == SourceByte(l.pos, l.idx + 1, f)
        v == from_str_radix(l.acc)
        err(kind, q, i, flt) ==
            [ok |-> FALSE, val |-> 0, kind |-> kind, pos |-> q, nsrc |-> i, fault |-> flt]
    IN  IF l.st # "break" THEN err(l.st, l.pos, l.idx, l.st = "source")
        ELSE IF ~Expect(b, LF)
             THEN err("decoder", l.pos + Took(b), l.idx + 1, b.tag = "SomeErr")
        ELSE IF ~from_utf8_ok(l.acc) THEN err("decoder", l.pos + 1, l.idx + 1, FALSE)
        ELSE IF v = None THEN err("decoder", l.pos + 1, l.idx + 1, FALSE)
        ELSE [ok |-> TRUE, val |-> Unwrap(v), kind |-> "none", pos |-> l.pos + 1,
              nsrc |-> l.idx + 1, fault |-> FALSE]

----------------------------------------------------------------------------
\* Decoder::read.

\* is_eof_chunk that no chunk size satisfies
is_never_eof_chunk(chunk_size) == chunk_size < 0

\* line 102: the zero-size chunk ends the stream
is_eof_chunk(chunk_size) == chunk_size = 0

\* buf_is_smaller with <= for <
buf_is_not_larger(buflen, remaining) == buflen <= remaining

\* buf_is_smaller with > for <
buf_is_larger(buflen, remaining) == buflen > remaining

\* line 123: the caller's buffer is smaller than what is left of the chunk
buf_is_smaller(buflen, remaining) == buflen < remaining

\* left_in_chunk without the subtraction
left_in_chunk_stale(remaining, read) == Some(remaining)

\* lines 125 and 149: what is left of the chunk after a read of `read` bytes
left_in_chunk(remaining, read) == Some(remaining - read)

\* chunk_is_read with > for ==
chunk_is_overread(read, remaining) == read > remaining

\* line 136: the read reached the end of the chunk
chunk_is_read(read, remaining) == read = remaining

\* what a call of read leaves and returns; the fields after data describe
\* what the call did: eos (returned at line 113), fault (the source reported
\* a failure), nsize (calls of read_chunk_size), ndata (calls of source.read),
\* req and got (bytes asked of and obtained from source.read), owed (the
\* chunk's remaining size when source.read was called), depth (invocations
\* of read), nsrc (source reads of any kind), assert_ok (line 131)
Ret(p, rem, idx) ==
    [pos |-> p, rem |-> rem, tag |-> "ok", n |-> 0, kind |-> "none", data |-> <<>>,
     eos |-> FALSE, fault |-> FALSE, nsize |-> 0, ndata |-> 0, req |-> 0, got |-> 0,
     owed |-> 0, depth |-> 1, nsrc |-> idx, assert_ok |-> TRUE]

\* Err(IoError::new(ErrorKind::InvalidInput, DecoderError))
DecoderErr(r) == [r EXCEPT !.tag = "err", !.kind = "decoder"]

\* the source's own error, passed on by try!
SourceErr(r) == [r EXCEPT !.tag = "err", !.kind = "source", !.fault = TRUE]

\* the two next() calls that take "\r\n" after a chunk or after the last
\* size line (lines 103-111 and 137-145); r is what the call returns if
\* both bytes are there
expect_crlf(r0, r, p, idx, f) ==
    LET b1 == SourceByte(p, idx + 1, f)
        b2 == SourceByte(p + 1, idx + 2, f)
    IN  IF ~Expect(b1, CR)
        THEN DecoderErr([r0 EXCEPT !.pos = p + Took(b1), !.nsrc = idx + 1,
                                   !.fault = (b1.tag = "SomeErr")])
        ELSE IF ~Expect(b2, LF)
        THEN DecoderErr([r0 EXCEPT !.pos = p + 1 + Took(b2), !.nsrc = idx + 2,
                                   !.fault = (b2.tag = "SomeErr")])
        ELSE [r EXCEPT !.pos = p + 2, !.nsrc = idx + 2]

\* lines 122-152: the decoder is in a chunk with c bytes left
read_in_chunk(p, c, C, k, idx, f) ==
    LET small == buf_is_smaller(C, c)
        req == IF small THEN C ELSE c
        s == SourceRead(p, req, k, idx + 1, f)
        r0 == [Ret(p, Some(c), idx + 1) EXCEPT !.ndata = 1, !.req = req, !.owed = c,
                                               !.assert_ok = (small \/ C >= c)]
        r1 == [r0 EXCEPT !.pos = p + s.n, !.got = s.n]
        done == [r1 EXCEPT !.n = s.n, !.data = SubSeq(input, p + 1, p + s.n)]
    IN  IF ~s.ok THEN SourceErr(r0)
        ELSE IF small THEN [done EXCEPT !.rem = left_in_chunk(c, s.n)]
        ELSE IF chunk_is_read(s.n, c)
             THEN expect_crlf(r1, [done EXCEPT !.rem = None], p + s.n, idx + 1, f)
        ELSE [done EXCEPT !.rem = left_in_chunk(c, s.n)]

\* read returning Ok(0) once the size line is parsed, without the call of
\* line 118
read_returns_early(p, rem, C, k, idx, f) ==
    IF IsSome(rem) THEN read_in_chunk(p, Unwrap(rem), C, k, idx, f)
    ELSE LET cs == read_chunk_size(p, idx, f)
             r0 == [Ret(cs.pos, None, cs.nsrc) EXCEPT !.nsize = 1]
         IN  IF ~cs.ok
             THEN [r0 EXCEPT !.tag = "err", !.kind = cs.kind, !.fault = cs.fault]
             ELSE IF is_eof_chunk(cs.val)
             THEN expect_crlf(r0, [r0 EXCEPT !.eos = TRUE], cs.pos, cs.nsrc, f)
             ELSE [r0 EXCEPT !.rem = Some(cs.val)]

\* lines 93-153, the recursive call of line 118 included
RECURSIVE read(_, _, _, _, _, _)
read(p, rem, C, k, idx, f) ==
    IF IsSome(rem) THEN read_in_chunk(p, Unwrap(rem), C, k, idx, f)
    ELSE LET cs == read_chunk_size(p, idx, f)
             r0 == [Ret(cs.pos, None, cs.nsrc) EXCEPT !.nsize = 1]
         IN  IF ~cs.ok
             THEN [r0 EXCEPT !.tag = "err", !.kind = cs.kind, !.fault = cs.fault]
             ELSE IF is_eof_chunk(cs.val)
             THEN expect_crlf(r0, [r0 EXCEPT !.eos = TRUE], cs.pos, cs.nsrc, f)
             ELSE LET r == read(cs.pos, Some(cs.val), C, k, cs.nsrc, f)
                  IN  [r EXCEPT !.nsize = r.nsize + 1, !.depth = r.depth + 1]

----------------------------------------------------------------------------
\* The wire format: chunk = chunk-size CRLF chunk-data CRLF, and the
\* terminal chunk "0" CRLF CRLF.

hex_digit(d, upper) ==
    IF d < 10 THEN 48 + d ELSE IF upper THEN 55 + d ELSE 87 + d

RECURSIVE to_hex(_, _)
to_hex(n, upper) ==
    IF n < 16 THEN <<hex_digit(n, upper)>>
    ELSE Append(to_hex(n \div 16, upper), hex_digit(n % 16, upper))

EncodeChunk(s, upper) ==
    IF Len(s) = 0 THEN <<>>
    ELSE to_hex(Len(s), upper) \o <<CR, LF>> \o s \o <<CR, LF>>

Terminal == <<48, CR, LF, CR, LF>>

RECURSIVE EncodeChunks(_, _)
EncodeChunks(cs, upper) ==
    IF Len(cs) = 0 THEN <<>>
    ELSE EncodeChunk(Head(cs), upper) \o EncodeChunks(Tail(cs), upper)

Encode(cs, upper) == EncodeChunks(cs, upper) \o Terminal

RECURSIVE Flatten(_)
Flatten(cs) == IF Len(cs) = 0 THEN <<>> ELSE Head(cs) \o Flatten(Tail(cs))

----------------------------------------------------------------------------
\* Inputs.

SeqUpTo(S, n) == UNION {[1..m -> S] : m \in 0..n}

\* '\r', '\n', '0', '1', 'm'
TailBytes == {CR, LF, 48, 49, 109}
Tails == SeqUpTo(TailBytes, MaxTail)

\* chunk data of the short slices: '\r' and 'x'
DataBytes == {CR, 120}
Slices == SeqUpTo(DataBytes, MaxSlice)

\* n times the byte 'x'
Rep(n) == [i \in 1..n |-> 120]

\* "hel", "lo world!!!" of the tests and the doc example
Hello == << <<104, 101, 108>>,
            <<108, 111, 32, 119, 111, 114, 108, 100, 33, 33, 33>> >>

\* slice lists with sizes that take the hex digits a-f and two digits, and
\* one whose data reads like framing
LongLists == {Hello, <<Rep(10)>>, <<Rep(15), Rep(1)>>, <<Rep(16)>>, <<Rep(26)>>,
              << <<CR, LF>>, Terminal >>}

ChunkLists == SeqUpTo(Slices, MaxChunks) \cup LongLists

\* what an arbitrary tail is appended to
Heads == { <<>>,
           EncodeChunk(<<120>>, FALSE),               \* "1\r\nx\r\n"
           Terminal,                                  \* "0\r\n\r\n"
           Encode(<< <<120>> >>, FALSE),              \* "1\r\nx\r\n0\r\n\r\n"
           <<50, CR, LF>>,                            \* "2\r\n"
           <<43>> \o EncodeChunk(<<120>>, FALSE),     \* "+1\r\nx\r\n"
           <<48>> \o Terminal,                        \* "00\r\n\r\n"
           <<49, 48, 48, 48>> }                       \* "1000"

NoCall ==
    [cap |-> 0, tag |-> "none", n |-> 0, kind |-> "none", eos |-> FALSE,
     fault |-> FALSE, nsize |-> 0, ndata |-> 0, req |-> 0, got |-> 0, owed |-> 0,
     depth |-> 0, nsrc |-> 0, assert_ok |-> TRUE]

\* Decoder::new(source), lines 50-55
NewDecoder == [pos |-> 0, rem |-> None, out |-> <<>>, ret |-> NoCall]

InitDecoder ==
    /\ pos = 0
    /\ remaining_chunks_size = None
    /\ out = <<>>
    /\ ret = NoCall
    /\ eof = FALSE
    /\ peer = NewDecoder

Init ==
    /\ \E h \in Heads, t \in Tails : input = h \o t
    /\ chunks = <<>>
    /\ InitDecoder

InitRT ==
    /\ chunks \in ChunkLists
    /\ \E upper \in BOOLEAN : input = Encode(chunks, upper)
    /\ InitDecoder

----------------------------------------------------------------------------
\* Actions.

\* what the caller sees of a call with a buffer of C bytes
Call(r, C) ==
    [cap |-> C, tag |-> r.tag, n |-> r.n, kind |-> r.kind, eos |-> r.eos,
     fault |-> r.fault, nsize |-> r.nsize, ndata |-> r.ndata, req |-> r.req,
     got |-> r.got, owed |-> r.owed, depth |-> r.depth, nsrc |-> r.nsrc,
     assert_ok |-> r.assert_ok]

\* one call decoder.read(buf) with buf.len() = C; the source hands out at
\* most k bytes per read and fails at its f-th read of the call (f = 0: never)
Read(C, k, f) ==
    \E r \in {read(pos, remaining_chunks_size, C, k, 0, f)} :
    /\ pos' = r.pos
    /\ remaining_chunks_size' = r.rem
    /\ out' = out \o r.data
    /\ ret' = Call(r, C)
    /\ eof' = (eof \/ r.eos)
    /\ UNCHANGED <<input, chunks, peer>>

\* the same call on the second decoder
PeerRead(C, k, f) ==
    \E r \in {read(peer.pos, peer.rem, C, k, 0, f)} :
    /\ peer' = [pos |-> r.pos, rem |-> r.rem, out |-> peer.out \o r.data,
                ret |-> Call(r, C)]
    /\ UNCHANGED <<input, chunks, pos, remaining_chunks_size, out, ret, eof>>

\* a caller that reads to the end stops at Ok(0) and at Err
Stopped(c) == c.tag = "err" \/ (c.tag = "ok" /\ c.n = 0)

\* buffer sizes: 0 .. MaxCap and one that holds the whole input
Caps == (0..MaxCap) \cup {Len(input)}

\* how many bytes the source is ready to hand out on a read into C bytes;
\* more than C is the same as C
Grants(C) == {k \in 1..MaxCap : k = 1 \/ k <= C}

\* any caller, any buffer size, over a source that never fails
Next ==
    \E C \in Caps : \E k \in Grants(C) : Read(C, k, 0)

Spec == Init /\ [][Next]_vars

\* a caller reading to the end with non-empty buffers, over a source that
\* never fails but may hand out fewer bytes than asked
ReadToEnd(C, k) == ~Stopped(ret) /\ Read(C, k, 0)

NextRT ==
    \E C \in Caps \ {0} : \E k \in Grants(C) : ReadToEnd(C, k)

SpecRT == InitRT /\ [][NextRT]_vars

\* the same caller, which does not stop calling before Ok(0) or Err, over
\* the bodies of at most one short slice and three of the long ones
LiveLists == SeqUpTo(Slices, 1) \cup {Hello, <<Rep(15), Rep(1)>>, <<Rep(16)>>}

InitLive ==
    /\ chunks \in LiveLists
    /\ \E upper \in BOOLEAN : input = Encode(chunks, upper)
    /\ InitDecoder

SpecRTLive == InitLive /\ [][NextRT]_vars /\ WF_vars(NextRT)

\* two decoders over the same bytes, read to the end one after the other by
\* a source that never fails and fills every request: the first with a
\* buffer of one byte, the second with a buffer that holds the whole input
ReadOne == ~Stopped(ret) /\ Read(1, 1, 0)

Whole == IF Len(input) = 0 THEN 1 ELSE Len(input)

ReadWhole == Stopped(ret) /\ ~Stopped(peer.ret) /\ PeerRead(Whole, Whole, 0)

NextPair == ReadOne \/ ReadWhole

SpecPair == Init /\ [][NextPair]_vars

\* a source that may fail: any caller, any buffer size, the failure at any
\* of the first MaxFault source reads of a call or at none
InitFault ==
    /\ \E h \in Heads, t \in SeqUpTo(TailBytes, 1) : input = h \o t
    /\ chunks = <<>>
    /\ InitDecoder

NextFault ==
    \E C \in Caps : \E k \in Grants(C) : \E f \in 0..MaxFault : Read(C, k, f)

SpecFault == InitFault /\ [][NextFault]_vars

\* a caller with its own retry policy over a source that may fail: it calls
\* read again after a failure the source reported, and stops at Ok(0) and
\* at any other error
Retrying(c) == c.tag = "err" /\ c.fault

ReadRetry(C, k, f) == (~Stopped(ret) \/ Retrying(ret)) /\ Read(C, k, f)

NextRetry ==
    \E C \in Caps \ {0} : \E k \in Grants(C) : \E f \in 0..MaxFault :
        ReadRetry(C, k, f)

\* the well-formed bodies of the short slice lists
InitRetry ==
    /\ chunks \in SeqUpTo(Slices, MaxChunks)
    /\ input = Encode(chunks, FALSE)
    /\ InitDecoder

SpecRetry == InitRetry /\ [][NextRetry]_vars

----------------------------------------------------------------------------
\* Reading the input as the wire format describes it, for the statements
\* below: none of this is used by the decoder above.

IsHexDigit(b) == b \in (48..57) \cup (65..70) \cup (97..102)

\* value of a hexadecimal digit and of a string of them
HexDigitVal(b) ==
    IF b \in 48..57 THEN b - 48 ELSE IF b \in 65..70 THEN b - 55 ELSE b - 87

RECURSIVE HexVal(_)
HexVal(tok) ==
    IF Len(tok) = 0 THEN 0
    ELSE 16 * HexVal(SubSeq(tok, 1, Len(tok) - 1)) + HexDigitVal(tok[Len(tok)])

\* index of the first '\r' after position p, or 0 when there is none
FirstCR(p) ==
    LET I == {i \in (p + 1)..Len(input) : input[i] = CR}
    IN  IF I = {} THEN 0 ELSE CHOOSE i \in I : \A j \in I : i <= j

\* the size token at p: the bytes before the first '\r'
TokenAt(p) == SubSeq(input, p + 1, FirstCR(p) - 1)

ByteIs(i, b) == i >= 1 /\ i <= Len(input) /\ input[i] = b

\* "\r\n" are the two bytes after position p
CRLFAt(p) == ByteIs(p + 1, CR) /\ ByteIs(p + 2, LF)

\* a size line "<hex digits>\r\n" starts after position p
SizeLineAt(p) ==
    /\ FirstCR(p) > p + 1
    /\ \A i \in 1..Len(TokenAt(p)) : IsHexDigit(TokenAt(p)[i])
    /\ ByteIs(FirstCR(p) + 1, LF)

\* position after the size line at p
LineEnd(p) == FirstCR(p) + 1

\* the size line at p is that of the terminal chunk: only zeros
ZeroLineAt(p) ==
    /\ SizeLineAt(p)
    /\ \A i \in 1..Len(TokenAt(p)) : TokenAt(p)[i] = 48

----------------------------------------------------------------------------
\* C1 (SpecRT).  Round trip: the input is the encoding of chunks followed by
\* the terminal chunk; read to the end with buffers of at least one byte
\* over a source that may hand out fewer bytes than asked, no call returns
\* an error, what was delivered is always the start of s1 + ... + sn, and
\* when read returns 0 exactly s1 + ... + sn was delivered.
IsPrefix(a, b) == Len(a) <= Len(b) /\ a = SubSeq(b, 1, Len(a))

C1_RoundTrip ==
    /\ ret.tag # "err"
    /\ IsPrefix(out, Flatten(chunks))
    /\ Stopped(ret) => out = Flatten(chunks)

\* the example of the tests: "hel" and "lo world!!!" decoded to the end
C1_Witness ==
    /\ chunks = Hello
    /\ Stopped(ret)
    /\ ret.tag = "ok"
    /\ Len(out) = 14

\* C2 (Spec).  read returns 0 into a non-empty buffer only once the terminal
\* zero-size chunk and its CRLF were consumed; a source that runs dry inside
\* a chunk makes read fail instead.
C2_ZeroOnlyAfterTerminal ==
    (ret.tag = "ok" /\ ret.n = 0 /\ ret.cap >= 1) => eof

\* C3 (SpecPair).  The decoder read one byte at a time and the decoder read
\* with a buffer holding the whole input have delivered the same bytes when
\* both have stopped (at end of stream or at an error).
C3_BufferSizeIndependence ==
    (Stopped(ret) /\ Stopped(peer.ret)) => out = peer.out

\* C4 (Spec).  Between chunks, with a size line of zeros followed by CRLF
\* next in the source, read returns Ok(0), delivers nothing, and takes from
\* the source exactly the size line and the two bytes after it.
C4_TerminalDetection ==
    [][ (remaining_chunks_size = None /\ ZeroLineAt(pos) /\ CRLFAt(LineEnd(pos)))
        => /\ ret'.tag = "ok"
           /\ ret'.n = 0
           /\ out' = out
           /\ pos' = LineEnd(pos) + 2
           /\ remaining_chunks_size' = None ]_vars

\* the terminal chunk was read with bytes behind it, which are left unread
C4_Witness ==
    /\ Len(input) > 5
    /\ SubSeq(input, 1, 5) = Terminal
    /\ ret.tag = "ok"
    /\ ret.n = 0
    /\ ret.nsize = 1
    /\ pos = 5
    /\ out = <<>>

\* C5 (Spec).  A read into a buffer of zero bytes returns Ok(0), takes no
\* byte from the source and leaves remaining_chunks_size as it was.
C5_ZeroCapacityNoOp ==
    [][ ret'.cap = 0
        => /\ ret'.tag = "ok"
           /\ ret'.n = 0
           /\ pos' = pos
           /\ remaining_chunks_size' = remaining_chunks_size ]_vars

\* C6 (Spec).  Once read has returned the end of stream of the terminal
\* chunk, no later call takes bytes from the source (a further size line)
\* or delivers data.
C6_TerminalCondition ==
    [][ eof => (pos' = pos /\ out' = out) ]_vars

\* C7 (Spec).  Between chunks, a size token (the bytes before the first
\* '\r') that is empty, holds a byte that is no hexadecimal digit, or
\* exceeds usize makes read fail without delivering data.
BadToken(tok) ==
    \/ Len(tok) = 0
    \/ \E i \in 1..Len(tok) : ~IsHexDigit(tok[i])
    \/ HexVal(tok) > UsizeMax

C7_MalformedSizeRejected ==
    [][ (remaining_chunks_size = None /\ FirstCR(pos) > 0 /\ BadToken(TokenAt(pos)))
        => (ret'.tag = "err" /\ out' = out) ]_vars

\* C8 (Spec).  Between chunks, if the source has no '\r' left, or the byte
\* after the first '\r' is not '\n' or is missing, read fails.
C8_SizeLineTermination ==
    [][ (remaining_chunks_size = None
         /\ (FirstCR(pos) = 0 \/ ~ByteIs(FirstCR(pos) + 1, LF)))
        => ret'.tag = "err" ]_vars

\* "1\r" followed by a byte that is not '\n': the call took it and failed
C8_Witness ==
    /\ Len(input) >= 3
    /\ input[1] = 49
    /\ input[2] = CR
    /\ input[3] # LF
    /\ pos = 3
    /\ ret.tag = "err"
    /\ ret.kind = "decoder"

\* C9 (Spec).  When the two bytes after the last data byte of a chunk, or
\* after the size line of the terminal chunk, are not "\r\n", a call that
\* takes the last data byte (or the terminal size line) fails, whatever the
\* buffer size.  ChunkEnd is the position of the last data byte of the chunk
\* the decoder is in, or of the chunk whose size line is next.
InChunk == IsSome(remaining_chunks_size)

AtChunkLine ==
    /\ remaining_chunks_size = None
    /\ SizeLineAt(pos)
    /\ HexVal(TokenAt(pos)) >= 1
    /\ HexVal(TokenAt(pos)) <= UsizeMax

ChunkEnd ==
    IF InChunk THEN pos + Unwrap(remaining_chunks_size)
    ELSE LineEnd(pos) + HexVal(TokenAt(pos))

C9_MissingTerminatorRejected ==
    [][ /\ ((InChunk \/ AtChunkLine) /\ ChunkEnd <= Len(input)
            /\ ~CRLFAt(ChunkEnd) /\ pos' >= ChunkEnd)
           => ret'.tag = "err"
        /\ (remaining_chunks_size = None /\ ZeroLineAt(pos) /\ ~CRLFAt(LineEnd(pos)))
           => ret'.tag = "err" ]_vars

\* "2\r\n", two data bytes and then something else than "\r\n": the call
\* that took the second data byte failed
C9_Witness ==
    /\ Len(input) >= 5
    /\ SubSeq(input, 1, 3) = <<50, CR, LF>>
    /\ ~CRLFAt(5)
    /\ pos >= 5
    /\ ret.tag = "err"
    /\ ret.owed = ret.got
    /\ ret.ndata = 1

\* C10 (SpecFault).  A call in which the source reported a failure returns
\* that failure of the source, never the decoder's own error.
C10_SourceErrorPropagated ==
    ret.fault => (ret.tag = "err" /\ ret.kind = "source")

\* C11 (Spec).  While the decoder stays in a chunk, remaining_chunks_size is
\* the number of data bytes of that chunk still unread in the source: a
\* call made in a chunk that leaves it in the chunk lowers it by exactly
\* the bytes the call pulled from the source, whatever the call returned.
C11_RemainingTracksSource ==
    [][ (InChunk /\ IsSome(remaining_chunks_size'))
        => pos' + Unwrap(remaining_chunks_size') = ChunkEnd ]_vars

\* C12 (Spec).  In a chunk with R bytes left, a call whose source.read got k
\* bytes: for k < R leaves Some(R - k), has taken the k bytes only and
\* returns k; for k = R followed by "\r\n" leaves None, has taken the k
\* bytes and the two after them and returns k; for k = R not followed by
\* "\r\n" fails; and it leaves None only when k = R.
C12_ChunkCompletion ==
    [][ InChunk =>
        LET R == Unwrap(remaining_chunks_size)
            k == ret'.got
            returns_k == /\ ret'.tag = "ok"
                         /\ ret'.n = k
                         /\ out' = out \o SubSeq(input, pos + 1, pos + k)
        IN  /\ ret'.ndata = 1
            /\ ret'.owed = R
            /\ k < R => /\ remaining_chunks_size' = Some(R - k)
                        /\ pos' = pos + k
                        /\ returns_k
            /\ (k = R /\ CRLFAt(pos + R))
                   => /\ remaining_chunks_size' = None
                      /\ pos' = pos + R + 2
                      /\ returns_k
            /\ (k = R /\ ~CRLFAt(pos + R)) => ret'.tag = "err"
            /\ remaining_chunks_size' = None => k = R ]_vars

\* a call that began in a chunk took its last bytes and the "\r\n"
C12_Witness ==
    /\ ret.tag = "ok"
    /\ ret.nsize = 0
    /\ ret.ndata = 1
    /\ ret.got = ret.owed
    /\ ret.n >= 1
    /\ remaining_chunks_size = None
    /\ CRLFAt(pos - 2)

\* C13 (Spec).  A call of read calls source.read at most once, asks it for
\* at most min(C, R) bytes (C the buffer size, R what is left of the chunk),
\* and returns n with 0 <= n <= min(C, R); what it returns is what that one
\* source.read obtained, so nothing beyond the chunk's data reaches the buffer.
C13_NoOverRead ==
    /\ ret.ndata <= 1
    /\ ret.req <= Min(ret.cap, ret.owed)
    /\ ret.got <= ret.req
    /\ ret.n >= 0
    /\ ret.n <= Min(ret.cap, ret.owed)
    /\ ret.tag = "ok" => ret.n = ret.got

\* a call with a buffer larger than what was left of the chunk asked the
\* source for the rest of the chunk only
C13_Witness ==
    /\ ret.ndata = 1
    /\ ret.cap > ret.owed
    /\ ret.req = ret.owed
    /\ ret.tag = "ok"
    /\ ret.n = ret.owed
    /\ pos < Len(input)

\* C14 (Spec).  A call with a buffer of at least one byte made between
\* chunks at a size line of value R >= 1, with at least one byte behind the
\* line, calls source.read for the chunk in the same invocation: it obtains
\* k >= 1 bytes and returns k, leaving Some(R - k) or, for k = R, None; it
\* fails only if it took the whole chunk and "\r\n" does not follow.
C14_NoEarlyReturn ==
    [][ (AtChunkLine /\ ret'.cap >= 1 /\ LineEnd(pos) < Len(input)) =>
        LET R == HexVal(TokenAt(pos))
            k == ret'.got
        IN  /\ ret'.nsize = 1
            /\ ret'.ndata = 1
            /\ ret'.owed = R
            /\ k >= 1
            /\ \/ /\ ret'.tag = "ok"
                  /\ ret'.n = k
                  /\ remaining_chunks_size' = IF k = R THEN None ELSE Some(R - k)
               \/ /\ ret'.tag = "err"
                  /\ k = R
                  /\ ~CRLFAt(ChunkEnd) ]_vars

\* one call took the size line "2\r\n" and delivered the first data byte
C14_Witness ==
    /\ Len(input) >= 4
    /\ SubSeq(input, 1, 3) = <<50, CR, LF>>
    /\ ret.nsize = 1
    /\ ret.ndata = 1
    /\ ret.tag = "ok"
    /\ ret.n = 1
    /\ pos = 4
    /\ remaining_chunks_size = Some(1)

\* C15 (SpecRetry).  Over a well-formed body, a caller that calls read again
\* after every failure the source reported gets what it gets from a source
\* that never fails: no call fails for another reason, what is delivered
\* stays a prefix of the chunks' data, and at Ok(0) it is all of it.
C15_RetryContinues ==
    /\ ret.tag = "err" => ret.fault
    /\ IsPrefix(out, Flatten(chunks))
    /\ (ret.tag = "ok" /\ ret.n = 0) => out = Flatten(chunks)

\* C16 (Spec).  A call that fails with the decoder's error has obtained no
\* chunk data from source.read.
C16_FramingErrorTakesNoData ==
    (ret.tag = "err" /\ ret.kind = "decoder") => ret.got = 0

\* C17 (SpecRTLive).  Over a well-formed body and a source that hands out at
\* least one byte per read while bytes are left, a caller that keeps calling
\* read with a non-empty buffer reaches the call that returns 0 at the end
\* of the stream (line 113).  The caller makes no call after the first one
\* that returns 0 or fails, so reaching that call says that every call
\* before it returned n >= 1.
C17_EventuallyEndOfStream ==
    <>(ret.tag = "ok" /\ ret.n = 0 /\ ret.eos)

\* the chunks of 15 bytes and 1 byte were read to the end of the stream in
\* more than two calls
C17_Witness ==
    /\ chunks = <<Rep(15), Rep(1)>>
    /\ ret.tag = "ok"
    /\ ret.n = 0
    /\ ret.eos
    /\ ret.cap < 16
    /\ out = Rep(16)

\* C18 (Spec).  remaining_chunks_size is never Some(0): it is None or Some(N)
\* with N >= 1.
C18_NeverSomeZero ==
    remaining_chunks_size = None
        \/ (IsSome(remaining_chunks_size) /\ Unwrap(remaining_chunks_size) >= 1)

\* a call that obtained fewer bytes than the chunk had left, stays in it
C18_Witness ==
    /\ ret.tag = "ok"
    /\ ret.ndata = 1
    /\ ret.got >= 1
    /\ ret.got < ret.owed
    /\ remaining_chunks_size = Some(ret.owed - ret.got)

\* C19 (Spec).  The assertion of line 131 holds whenever it is reached, and
\* the subtractions of lines 125 and 149 never go below zero: source.read
\* obtained at most what was left of the chunk.
C19_AssertAndSubtractionsSafe ==
    /\ ret.assert_ok
    /\ ret.ndata = 1 => ret.got <= ret.owed
    /\ IsSome(remaining_chunks_size) => Unwrap(remaining_chunks_size) \in 0..UsizeMax

\* a call went past line 131 with a buffer larger than the rest of the chunk
\* and a source that handed out less than that rest
C19_Witness ==
    /\ ret.ndata = 1
    /\ ret.cap > ret.owed
    /\ ret.got < ret.owed
    /\ ret.assert_ok
    /\ ret.tag = "ok"

\* C20 (Spec).  One call of read by the caller invokes read at most twice
\* (itself at most once) and read_chunk_size at most once; the inner
\* invocation finds Some(R) with R >= 1 and calls source.read, whatever the
\* buffer size.
C20_BoundedRecursion ==
    /\ ret.depth <= 2
    /\ ret.nsize <= 1
    /\ ret.depth = 2 => (ret.nsize = 1 /\ ret.ndata = 1 /\ ret.owed >= 1)

\* a call with an empty buffer parsed a size line and went on to the data
\* branch
C20_Witness ==
    /\ ret.cap = 0
    /\ ret.depth = 2
    /\ ret.nsize = 1
    /\ ret.ndata = 1
    /\ ret.owed >= 1

====
